---- MODULE Spec2Model ----
(***************************************************************************)
(* A model of the application state comparison of controller/state.go      *)
(* (CompareAppState and DeduplicateTargetObjects).                         *)
(*                                                                         *)
(* One pass of CompareAppState is a sequence of steps, one per block of    *)
(* the function; the collaborators it calls (settings, manifest source,    *)
(* live state cache, project, diff engine) answer from the inputs chosen   *)
(* in Init.  Go map iteration is a nondeterministic choice of an order.    *)
(*                                                                         *)
(* The module also models persistRevisionHistory of controller/state.go    *)
(* and the utilities WatchWithRetry and RetryUntilSucceed of               *)
(* engine/pkg/utils/kube/kube.go, each under a specification of its own.   *)
(***************************************************************************)
EXTENDS Integers, Sequences, FiniteSets, TLC

\* ------------------------------------------------------------------ bounds
MaxTargets == 2      \* manifests given to one pass
MaxLive == 1         \* live objects the cache returns
MaxNames == 1        \* distinct object names
MaxDeviations == 1   \* collaborators that fail or restrict in one pass
MaxOpens == 2        \* calls of getWatch that are told apart
MaxItems == 2        \* items sent on the output channel that are told apart
MaxAttempts == 5     \* calls of action that are told apart
MaxCalls == 3        \* calls of persistRevisionHistory on one application
MaxHistory == 2      \* entries of the history before the first call
MaxLimit == 2        \* the revision history limit of the application
IDBits == 3          \* the width of a RevisionHistory ID, 64 in the code

\* --------------------------------------------------------------- the data
\* app.Spec.Destination.Namespace / .Server, app.Spec.Source and the source
\* argument of the pass
DestNamespace == "dest"
DestServer == "cluster"
AppSpecSource == "appSource"
GivenSource == "givenSource"
AppDestination == [server |-> DestServer, namespace |-> DestNamespace]
NoDestination == [server |-> "", namespace |-> ""]

\* group/kinds of the model: one namespaced, one cluster scoped
Kinds == {"Deploy", "CRole"}
NamespacedKinds == {"Deploy"}
Names == 1..MaxNames

\* An unstructured object: group/kind, namespace, name and the annotations
\* the comparison reads ("hook", "ignore" = sync-options Ignore,
\* "extraneous" = compare-options IgnoreExtraneous).
TargetAnns == {{}, {"hook"}, {"ignore"}}
LiveAnns ==
    {{}, {"hook"}, {"ignore"}, {"extraneous"}, {"hook", "extraneous"}, {"ignore", "extraneous"}}

Nil == [gk |-> "", ns |-> "", name |-> 0, ann |-> {"nil"}]

TargetUniverse ==
    [gk : Kinds, ns : {"", DestNamespace}, name : Names, ann : TargetAnns]

\* live objects as the cluster holds them: namespaced kinds in the
\* destination namespace, cluster scoped kinds with no namespace
LiveUniverse ==
    {o \in [gk : Kinds, ns : {"", DestNamespace}, name : Names, ann : LiveAnns] :
        o.ns = (IF o.gk \in NamespacedKinds THEN DestNamespace ELSE "")}

NoKey == [gk |-> "", ns |-> "", name |-> 0]

GetResourceKey(obj) == [gk |-> obj.gk, ns |-> obj.ns, name |-> obj.name]

\* all sequences over S of length at most n
SeqsUpTo(S, n) == UNION {[1..k -> S] : k \in 0..n}

\* the orders in which a Go map with key set S can be iterated
Orders(S) ==
    {s \in [1..Cardinality(S) -> S] : \A i, j \in 1..Cardinality(S) : s[i] = s[j] => i = j}

\* the steps of a pass whose collaborator can fail
Faults == {"settings", "manifest", "cache", "filter", "live", "diff"}

\* settings and project of the pass: the kinds the resources filter
\* excludes, the (kind, namespaced) scopes the project forbids, the kinds of
\* live objects the project does not permit
PlainPolicy == [excluded |-> {}, denied |-> {}, liveDenied |-> {}]

Policies ==
    { PlainPolicy,
      [excluded |-> {"CRole"}, denied |-> {}, liveDenied |-> {}],
      [excluded |-> {}, denied |-> {<<"CRole", FALSE>>}, liveDenied |-> {}],
      [excluded |-> {}, denied |-> {}, liveDenied |-> {"Deploy"}] }

\* ------------------------------------------------------------- conditions
ComparisonError(step) ==
    [type |-> "ComparisonError", step |-> step, key |-> NoKey, count |-> 0]
RepeatedResourceWarning(key, n) ==
    [type |-> "RepeatedResourceWarning", step |-> "", key |-> key, count |-> n]
ExcludedResourceWarning(obj) ==
    [type |-> "ExcludedResourceWarning", step |-> "",
     key |-> [gk |-> obj.gk, ns |-> "", name |-> obj.name], count |-> 0]

\* ------------------------------------------------- annotation predicates
IsHook(obj) == "hook" \in obj.ann
Ignore(obj) == "ignore" \in obj.ann
HasIgnoreExtraneous(obj) == "extraneous" \in obj.ann

\* -------------------------------------------------- resource info provider
\* "cluster" is the cluster cache, "stub" is resourceInfoProviderStub
IsNamespaced(provider, gk) ==
    IF provider = "stub" THEN FALSE ELSE gk \in NamespacedKinds

InfoProvider(fs) == IF "cache" \in fs THEN "stub" ELSE "cluster"

\* ------------------------------------------------ DeduplicateTargetObjects
\* lines 176-181: cluster scoped kinds lose their namespace, namespaced
\* kinds without one get the destination namespace
ImputeNamespace(namespace, obj, provider) ==
    IF ~IsNamespaced(provider, obj.gk) THEN [obj EXCEPT !.ns = ""]
    ELSE IF obj.ns = "" THEN [obj EXCEPT !.ns = namespace]
    ELSE obj

Imputed(namespace, objs, provider) ==
    [i \in 1..Len(objs) |-> ImputeNamespace(namespace, objs[i], provider)]

TargetKeys(objs) == {GetResourceKey(objs[i]) : i \in 1..Len(objs)}

\* targetByKey[key]: the objects of one key, in input order
TargetsOfKey(objs, key) == SelectSeq(objs, LAMBDA o : GetResourceKey(o) = key)

\* a deduplication that keeps the first occurrence
DedupSurvivor_First(targets) == targets[1]

\* line 196: targets[len(targets)-1]
DedupSurvivor(targets) == targets[Len(targets)]

\* line 188: len(targets) > 1
IsRepeated(targets) == Len(targets) > 1

\* a deduplication that returns every object it was given
DedupResult_KeepsAll(imputed, order) ==
    [objs |-> imputed, conditions |-> << >>]

\* lines 185-199: one pass over targetByKey in the map's iteration order
DedupResult(imputed, order) ==
    LET repeated == SelectSeq(order, LAMBDA k : IsRepeated(TargetsOfKey(imputed, k)))
    IN  [objs |-> [n \in 1..Len(order) |-> DedupSurvivor(TargetsOfKey(imputed, order[n]))],
         conditions |-> [n \in 1..Len(repeated) |->
             RepeatedResourceWarning(repeated[n], Len(TargetsOfKey(imputed, repeated[n])))]]

\* the iteration orders of targetByKey
DedupOrders(namespace, objs, provider) ==
    Orders(TargetKeys(Imputed(namespace, objs, provider)))

DeduplicateTargetObjects(namespace, objs, provider, order) ==
    DedupResult(Imputed(namespace, objs, provider), order)

\* ------------------------------------------------------ resources filter
IsExcludedResource(policy, gk) == gk \in policy.excluded

\* line 280: append(targetObjs[:i], targetObjs[i+1:]...), positions from 1
RemoveAt(s, i) == SubSeq(s, 1, i - 1) \o SubSeq(s, i + 1, Len(s))

\* lines 278-289: the loop walks the positions from the last to the first;
\* an excluded target is cut out of the slice and one warning is appended
RECURSIVE FilterLoop(_, _, _, _)
FilterLoop(policy, objs, conds, i) ==
    IF i < 1
    THEN [objs |-> objs, conditions |-> conds]
    ELSE IF IsExcludedResource(policy, objs[i].gk)
         THEN FilterLoop(policy, RemoveAt(objs, i),
                         Append(conds, ExcludedResourceWarning(objs[i])), i - 1)
         ELSE FilterLoop(policy, objs, conds, i - 1)

\* a loop that stops before the first position (i > 0 for i >= 0)
FilterTargets_SkipsFirst(policy, objs) ==
    IF objs = << >>
    THEN [objs |-> << >>, conditions |-> << >>]
    ELSE LET r == FilterLoop(policy, Tail(objs), << >>, Len(objs) - 1)
         IN  [objs |-> <<Head(objs)>> \o r.objs, conditions |-> r.conditions]

FilterTargets(policy, objs) == FilterLoop(policy, objs, << >>, Len(objs))

\* ---------------------------------------------------------------- project
IsLiveResourcePermitted(policy, obj) == obj.gk \notin policy.liveDenied
IsGroupKindPermitted(policy, gk, namespaced) == <<gk, namespaced>> \notin policy.denied

\* lines 302-306
PermittedLive(policy, live) == {o \in live : IsLiveResourcePermitted(policy, o)}

\* -------------------------------------------------------------- Reconcile
\* the live object of a key, Nil when the map has none
LiveOfKey(live, key) ==
    IF \E o \in live : GetResourceKey(o) = key
    THEN CHOOSE o \in live : GetResourceKey(o) = key
    ELSE Nil

ReconcileKey(namespace, obj, provider) ==
    GetResourceKey(ImputeNamespace(namespace, obj, provider))

\* the live objects no target claims: the prune candidates
PruneCandidates(targetObjs, live, namespace, provider) ==
    {o \in live : \A i \in 1..Len(targetObjs) :
        ReconcileKey(namespace, targetObjs[i], provider) # GetResourceKey(o)}

\* target slots in input order, each with the live object of its key (taken
\* out of the map, so a later target of the same key finds none), then one
\* slot per remaining live object in the map's iteration order
Reconcile(targetObjs, live, namespace, provider, order) ==
    LET keyOf(i) == ReconcileKey(namespace, targetObjs[i], provider)
        paired == [i \in 1..Len(targetObjs) |->
                     IF \E j \in 1..(i - 1) : keyOf(j) = keyOf(i)
                     THEN Nil ELSE LiveOfKey(live, keyOf(i))]
    IN  [Target |-> targetObjs \o [i \in 1..Len(order) |-> Nil],
         Live |-> paired \o order]

\* ------------------------------------------------------------------- diff
\* the diff of a slot: modified when both sides exist and differ
DiffModified(t, l) == t # Nil /\ l # Nil /\ t # l

DiffArray(targets, lives) ==
    [i \in 1..Len(targets) |-> [modified |-> DiffModified(targets[i], lives[i])]]

\* ------------------------------------------------- per-slot comparison
\* lines 337-340: the live object when there is one, else the target
SlotObj(t, l) == IF l # Nil THEN l ELSE t

\* line 353 and line 366
RequiresPruning(t, l) == t = Nil /\ l # Nil

\* line 357: hooks and Ignore-annotated objects take no part
IsSkipped(obj) == IsHook(obj) \/ Ignore(obj)

\* a comparison that takes a slot with a missing side for in sync
IsOutOfSync_ModifiedOnly(t, l, d) == d.modified

\* line 359
IsOutOfSync(t, l, d) == d.modified \/ t = Nil \/ l = Nil

\* a comparison that does not read the IgnoreExtraneous option
Downgrades_IgnoresOption(t, l, d) ==
    /\ ~(IsHook(IF l # Nil THEN l ELSE t) \/ Ignore(IF l # Nil THEN l ELSE t))
    /\ (d.modified \/ t = Nil \/ l = Nil)

\* line 367: the slot sets syncCode to OutOfSync
Downgrades(t, l, d) ==
    /\ ~IsSkipped(SlotObj(t, l))
    /\ IsOutOfSync(t, l, d)
    /\ ~(RequiresPruning(t, l) /\ HasIgnoreExtraneous(SlotObj(t, l)))

\* lines 357-372: the status the comparison gives the slot
ComparedStatus(t, l, d) ==
    IF IsSkipped(SlotObj(t, l)) THEN ""
    ELSE IF IsOutOfSync(t, l, d) THEN "OutOfSync"
    ELSE "Synced"

\* line 374: liveStateCache.IsNamespaced(server, gk), isNamespaced && err == nil
ScopeIsNamespaced(fs, gk) == "cache" \notin fs /\ gk \in NamespacedKinds

\* a status that is not overridden when the objects failed to load
SlotStatus_IgnoresFailure(t, l, d, policy, fs, failed) ==
    IF ~IsGroupKindPermitted(policy, (IF l # Nil THEN l ELSE t).gk,
                             "cache" \notin fs /\ (IF l # Nil THEN l ELSE t).gk \in NamespacedKinds)
    THEN "Unknown"
    ELSE IF "hook" \in (IF l # Nil THEN l ELSE t).ann \/ "ignore" \in (IF l # Nil THEN l ELSE t).ann
    THEN ""
    ELSE IF d.modified \/ t = Nil \/ l = Nil THEN "OutOfSync"
    ELSE "Synced"

\* a status that the project's permissions do not override
SlotStatus_IgnoresProject(t, l, d, policy, fs, failed) ==
    IF failed THEN "Unknown" ELSE ComparedStatus(t, l, d)

\* lines 373-382: the overrides of the slot's status
SlotStatus(t, l, d, policy, fs, failed) ==
    IF failed THEN "Unknown"
    ELSE IF ~IsGroupKindPermitted(policy, SlotObj(t, l).gk, ScopeIsNamespaced(fs, SlotObj(t, l).gk))
    THEN "Unknown"
    ELSE ComparedStatus(t, l, d)

\* lines 346-354, with the status of lines 357-382
ResourceStatus(t, l, d, policy, fs, failed) ==
    [gk |-> SlotObj(t, l).gk, ns |-> SlotObj(t, l).ns, name |-> SlotObj(t, l).name,
     status |-> SlotStatus(t, l, d, policy, fs, failed),
     hook |-> IsHook(SlotObj(t, l)),
     requiresPruning |-> RequiresPruning(t, l)]

\* a managed resource named after its target when it has one
ManagedResource_OfTarget(t, l, d) ==
    [Target |-> t, Live |-> l, Diff |-> d,
     gk |-> (IF t # Nil THEN t ELSE l).gk, ns |-> (IF t # Nil THEN t ELSE l).ns,
     name |-> (IF t # Nil THEN t ELSE l).name,
     Hook |-> IsHook(IF t # Nil THEN t ELSE l)]

\* lines 383-393
ManagedResource(t, l, d) ==
    [Target |-> t, Live |-> l, Diff |-> d,
     gk |-> SlotObj(t, l).gk, ns |-> SlotObj(t, l).ns, name |-> SlotObj(t, l).name,
     Hook |-> IsHook(SlotObj(t, l))]

\* lines 332, 368, 397-399
SyncCode(targets, lives, diffs, failed) ==
    IF failed THEN "Unknown"
    ELSE IF \E i \in 1..Len(targets) : Downgrades(targets[i], lives[i], diffs[i])
    THEN "OutOfSync"
    ELSE "Synced"

\* line 356: diffResults.Diffs[i] of a slot the diff result does not hold
\* is an index out of range, a run time panic
IndexOutOfRange(targets, diffs) == \E i \in 1..Len(targets) : i > Len(diffs)

\* ---------------------------------------------------------------- results
NoResult ==
    [returned |-> FALSE, panicked |-> FALSE,
     syncStatus |-> [status |-> "", source |-> "", destination |-> NoDestination],
     healthStatus |-> "", resources |-> << >>, managedResources |-> << >>]

Panicked == [NoResult EXCEPT !.panicked = TRUE]

\* an early result compared to the source of the app spec
UnknownResult_OfAppSpec(source) ==
    [returned |-> TRUE, panicked |-> FALSE,
     syncStatus |-> [status |-> "Unknown", source |-> AppSpecSource,
                     destination |-> AppDestination],
     healthStatus |-> "Unknown", resources |-> << >>, managedResources |-> << >>]

\* lines 226-232: the result of a pass whose settings do not load
UnknownResult(source) ==
    [returned |-> TRUE, panicked |-> FALSE,
     syncStatus |-> [status |-> "Unknown", source |-> source, destination |-> AppDestination],
     healthStatus |-> "Unknown", resources |-> << >>, managedResources |-> << >>]

\* lines 332-426: the result built from the reconciled slots
BuildResult(source, targets, lives, diffs, policy, fs, failed) ==
    IF IndexOutOfRange(targets, diffs) THEN Panicked
    ELSE [returned |-> TRUE, panicked |-> FALSE,
          syncStatus |-> [status |-> SyncCode(targets, lives, diffs, failed),
                          source |-> source, destination |-> AppDestination],
          healthStatus |-> "Evaluated",
          resources |-> [i \in 1..Len(targets) |->
              ResourceStatus(targets[i], lives[i], diffs[i], policy, fs, failed)],
          managedResources |-> [i \in 1..Len(targets) |->
              ManagedResource(targets[i], lives[i], diffs[i])]]

\* -------------------------------------------------- the pass as a function
\* lines 246-261: the targets a pass loads
LoadedTargets(fs, ms) == IF "manifest" \in fs THEN << >> ELSE ms

\* lines 274-290
FilteredTargets(fs, policy, objs) ==
    IF "filter" \in fs THEN objs ELSE FilterTargets(policy, objs).objs

\* lines 293-298: the map GetManagedLiveObjs hands to the pass, an empty one
\* when it fails
ObtainedLive(fs, live) == IF "live" \in fs THEN {} ELSE live

\* lines 293-306
ManagedLive(fs, policy, live) ==
    PermittedLive(policy, IF "live" \in fs THEN {} ELSE live)

\* lines 251, 258, 297, 328
FailedToLoad(fs) == fs \cap {"manifest", "live", "diff"} # {}

\* the targets reconciled when targetByKey is iterated in order o1
ReconciledTargets(ms, policy, fs, o1) ==
    FilteredTargets(fs, policy,
        DeduplicateTargetObjects(DestNamespace, LoadedTargets(fs, ms), InfoProvider(fs), o1).objs)

\* CompareAppState as a function of its inputs, of what its collaborators
\* answer and of the two map iteration orders
CompareAppStateWith(source, ms, live, policy, fs, o1, o2) ==
    IF "settings" \in fs THEN UnknownResult(source)
    ELSE LET rec == Reconcile(ReconciledTargets(ms, policy, fs, o1),
                              ManagedLive(fs, policy, live),
                              DestNamespace, InfoProvider(fs), o2)
             diffs == IF "diff" \in fs THEN << >> ELSE DiffArray(rec.Target, rec.Live)
         IN  BuildResult(source, rec.Target, rec.Live, diffs, policy, fs, FailedToLoad(fs))

\* every result a pass over these inputs can have
CompareAppStateResults(source, ms, live, policy, fs) ==
    UNION { { CompareAppStateWith(source, ms, live, policy, fs, o1, o2) :
                o2 \in Orders(PruneCandidates(ReconciledTargets(ms, policy, fs, o1),
                                              ManagedLive(fs, policy, live),
                                              DestNamespace, InfoProvider(fs))) } :
            o1 \in DedupOrders(DestNamespace, LoadedTargets(fs, ms), InfoProvider(fs)) }

\* app.Status.SetConditions: the conditions of the given types are replaced
SetConditions(existing, new, types) ==
    SelectSeq(existing, LAMBDA c : c.type \notin types) \o new

ReplacedTypes ==
    {"ComparisonError", "SharedResourceWarning",
     "RepeatedResourceWarning", "ExcludedResourceWarning"}

\* ------------------------------------------------------------------ state
VARIABLES
    manifests,         \* the manifests of the pass (local ones, or the repository's)
    local,             \* len(localManifests) > 0
    cacheLive,         \* what GetManagedLiveObjs returns
    policy,            \* resources filter and project
    faults,            \* the collaborators that fail in this pass
    pc,                \* the position in CompareAppState
    targetObjs,
    conditions,
    failedToLoadObjs,
    liveObjByKey,
    reconciliation,
    diffResults,
    compRes,           \* the result returned
    calls,             \* the collaborators called so far
    appConditions,     \* app.Status.Conditions
    second             \* the result of a second pass over the same inputs

inputs == <<manifests, local, cacheLive, policy, faults>>
locals == <<targetObjs, conditions, failedToLoadObjs, liveObjByKey, reconciliation, diffResults>>
vars == <<manifests, local, cacheLive, policy, faults, pc, targetObjs, conditions,
          failedToLoadObjs, liveObjByKey, reconciliation, diffResults, compRes, calls,
          appConditions, second>>

LiveMaps ==
    {S \in {{s[i] : i \in 1..Len(s)} : s \in SeqsUpTo(LiveUniverse, MaxLive)} :
        \A a, b \in S : GetResourceKey(a) = GetResourceKey(b) => a = b}

\* --------------------------------------- state of the utilities of kube.go
VARIABLES
    \* WatchWithRetry
    wpc,               \* the position of the goroutine of lines 341-356
    ctxDone,           \* ctx of WatchWithRetry is canceled
    watchOpen,         \* watches that getWatch returned and nobody stopped
    resultChan,        \* w.ResultChan(): "none", "idle", "event" or "closed"
    retry,             \* what execute returned last
    err,
    chClosed,          \* ch is closed
    closes,            \* how often close(ch) ran
    opens,             \* calls of getWatch, counted up to MaxOpens
    sentEvents,        \* Event items sent on ch, counted up to MaxItems
    sentErrors,        \* Error items sent on ch, counted up to MaxItems
    receiving,         \* the consumer still receives from ch
    offered,           \* the events the watches put on their result channels
    held,              \* the event execute has received and not yet sent
    forwarded,         \* the Event items sent on ch
    \* RetryUntilSucceed
    rpc,               \* the position of the caller's goroutine
    gpc,               \* the position of the goroutine of lines 373-379
    retryCtxDone,      \* ctx of RetryUntilSucceed is canceled
    ctxCompleted,
    stopClosed,        \* stop is closed
    attempts,          \* calls of action, counted up to MaxAttempts
    succeeded,         \* the last call of action returned nil
    observed,          \* line 387 has read ctxCompleted as true
    \* persistRevisionHistory
    history,           \* app.Status.History
    limit,             \* app.Spec.GetRevisionHistoryLimit()
    patched,           \* status.history as the API server stores it
    persisted,         \* the revisions and sources persistRevisionHistory was given
    persistErr         \* the last call of persistRevisionHistory returned an error

watchVars == <<wpc, ctxDone, watchOpen, resultChan, retry, err, chClosed, closes, opens,
               sentEvents, sentErrors, receiving, offered, held, forwarded>>
retryVars == <<rpc, gpc, retryCtxDone, ctxCompleted, stopClosed, attempts, succeeded, observed>>
historyVars == <<history, limit, patched, persisted, persistErr>>
utilVars == <<watchVars, retryVars, historyVars>>
allVars == <<vars, watchVars, retryVars, historyVars>>

\* what the steps of one utility leave alone
relayed == <<offered, held, forwarded>>
besidesWatch == <<vars, retryVars, historyVars>>
besidesRetry == <<vars, watchVars, historyVars>>

\* a watch.Event, told from the others by the watch that delivers it and
\* its place among the events delivered
WatchEvent(w, n) == [watch |-> w, seq |-> n]

\* execute holds no event
NoEvent == WatchEvent(0, 0)

\* lines 314-317 and 341: ch is made and the goroutine started
WatchStart ==
    /\ wpc = "getWatch"
    /\ ctxDone = FALSE
    /\ watchOpen = 0
    /\ resultChan = "none"
    /\ retry = FALSE
    /\ err = FALSE
    /\ chClosed = FALSE
    /\ closes = 0
    /\ opens = 0
    /\ sentEvents = 0
    /\ sentErrors = 0
    /\ receiving = TRUE
    /\ offered = << >>
    /\ held = NoEvent
    /\ forwarded = << >>

\* lines 370-373: the flag and stop are made and the goroutine started; ctx
\* may be canceled already
RetryStart ==
    /\ rpc = "action"
    /\ gpc = "select"
    /\ retryCtxDone \in BOOLEAN
    /\ ctxCompleted = FALSE
    /\ stopClosed = FALSE
    /\ attempts = 0
    /\ succeeded = FALSE
    /\ observed = FALSE

\* RetryUntilSucceed is not running
RetryIdle == RetryStart /\ retryCtxDone = FALSE

\* ------------------------------------------------- the revision history
\* the largest ID and the value an int64 sum takes, at the width IDBits
MaxID == 2 ^ (IDBits - 1) - 1
Wrap(n) == ((n + 2 ^ (IDBits - 1)) % 2 ^ IDBits) - 2 ^ (IDBits - 1)

Revisions == {"r1", "r2"}
Sources == {"s1", "s2"}

\* lines 444-449: a RevisionHistory; DeployedAt is the number of the call
\* that made the entry, 0 for an entry that was there before
RevisionHistory(revision, deployedAt, id, source) ==
    [Revision |-> revision, DeployedAt |-> deployedAt, ID |-> id, Source |-> source]

\* an entry made from the length of the history, not from its last ID
NextID_OfLength(h) == Len(h)

\* lines 440-443
NextID(h) == IF Len(h) > 0 THEN Wrap(h[Len(h)].ID + 1) ELSE 0

\* RevisionHistories.Trunc keeps the last n entries
Trunc(h, n) ==
    LET i == Len(h) - n
    IN  IF i > 0 THEN SubSeq(h, i + 1, Len(h)) ELSE h

\* a history that is cut to the limit before the new entry is appended
PersistedHistory_TruncFirst(h, revision, source, now, n) ==
    Append(Trunc(h, n), RevisionHistory(revision, now, NextID(h), source))

\* lines 440-451: the history the call leaves in the application
PersistedHistory(h, revision, source, now, n) ==
    Trunc(Append(h, RevisionHistory(revision, now, NextID(h), source)), n)

StrictlyIncreasing(ids) == \A i, j \in 1..Len(ids) : i < j => ids[i] < ids[j]

IDsOf(h) == [i \in 1..Len(h) |-> h[i].ID]

\* the histories an application can have before the first call: entries of
\* earlier revisions with increasing IDs that are not negative
EarlierHistories ==
    {[i \in 1..Len(ids) |-> RevisionHistory("r0", 0, ids[i], "s0")] :
        ids \in {q \in SeqsUpTo(0..MaxID, MaxHistory) : StrictlyIncreasing(q)}}

\* the application as persistRevisionHistory first finds it: the API
\* server stores the history the application has
HistoryStart ==
    /\ history \in EarlierHistories
    /\ limit \in 0..MaxLimit
    /\ patched = history
    /\ persisted = << >>
    /\ persistErr = FALSE

\* persistRevisionHistory is not called
HistoryIdle == HistoryStart /\ history = << >> /\ limit = 0

Init ==
    /\ manifests \in SeqsUpTo(TargetUniverse, MaxTargets)
    /\ local \in {b \in BOOLEAN : b => Len(manifests) > 0}
    /\ cacheLive \in LiveMaps
    /\ policy \in Policies
    /\ faults \in {F \in SUBSET Faults :
                    Cardinality(F) + (IF policy = PlainPolicy THEN 0 ELSE 1) <= MaxDeviations}
    /\ pc = "start"
    /\ targetObjs = << >>
    /\ conditions = << >>
    /\ failedToLoadObjs = FALSE
    /\ liveObjByKey = {}
    /\ reconciliation = [Target |-> << >>, Live |-> << >>]
    /\ diffResults = << >>
    /\ compRes = NoResult
    /\ calls = {}
    /\ appConditions = << >>
    /\ second = NoResult
    /\ WatchStart
    /\ RetryIdle
    /\ HistoryIdle

\* lines 222-233
LoadSettings ==
    /\ pc = "start"
    /\ calls' = calls \cup {"settings"}
    /\ IF "settings" \in faults
       THEN /\ compRes' = UnknownResult(GivenSource)
            /\ pc' = "done"
       ELSE /\ compRes' = compRes
            /\ pc' = "settings"
    /\ UNCHANGED <<utilVars, inputs, locals, appConditions, second>>

\* lines 246-261
GetTargets ==
    /\ pc = "settings"
    /\ calls' = calls \cup (IF local THEN {} ELSE {"manifestSource", "liveStateCache"})
    /\ targetObjs' = LoadedTargets(faults, manifests)
    /\ IF "manifest" \in faults
       THEN /\ conditions' = Append(conditions,
                   ComparisonError(IF local THEN "unmarshalManifests" ELSE "getRepoObjs"))
            /\ failedToLoadObjs' = TRUE
       ELSE UNCHANGED <<conditions, failedToLoadObjs>>
    /\ pc' = "targets"
    /\ UNCHANGED <<utilVars, inputs, liveObjByKey, reconciliation, diffResults, compRes,
                   appConditions, second>>

\* lines 263-272
Deduplicate ==
    /\ pc = "targets"
    /\ calls' = calls \cup {"liveStateCache"}
    /\ \E order \in DedupOrders(DestNamespace, targetObjs, InfoProvider(faults)) :
         LET r == DeduplicateTargetObjects(DestNamespace, targetObjs, InfoProvider(faults), order)
         IN  /\ targetObjs' = r.objs
             /\ conditions' = conditions \o r.conditions
    /\ pc' = "deduped"
    /\ UNCHANGED <<utilVars, inputs, failedToLoadObjs, liveObjByKey, reconciliation, diffResults,
                   compRes, appConditions, second>>

\* lines 274-290
ApplyFilter ==
    /\ pc = "deduped"
    /\ calls' = calls \cup {"settings"}
    /\ IF "filter" \in faults
       THEN /\ conditions' = Append(conditions, ComparisonError("GetResourcesFilter"))
            /\ UNCHANGED targetObjs
       ELSE /\ targetObjs' = FilterTargets(policy, targetObjs).objs
            /\ conditions' = conditions \o FilterTargets(policy, targetObjs).conditions
    /\ pc' = "filtered"
    /\ UNCHANGED <<utilVars, inputs, failedToLoadObjs, liveObjByKey, reconciliation, diffResults,
                   compRes, appConditions, second>>

\* a live state fetch whose failure leaves failedToLoadObjs as it was
GetLive_KeepsFlag ==
    /\ pc = "filtered"
    /\ calls' = calls \cup {"liveStateCache", "project"}
    /\ liveObjByKey' = PermittedLive(policy, IF "live" \in faults THEN {} ELSE cacheLive)
    /\ IF "live" \in faults
       THEN conditions' = Append(conditions, ComparisonError("GetManagedLiveObjs"))
       ELSE UNCHANGED conditions
    /\ pc' = "live"
    /\ UNCHANGED <<utilVars, inputs, targetObjs, failedToLoadObjs, reconciliation, diffResults,
                   compRes, appConditions, second>>

\* lines 293-319
GetLive ==
    /\ pc = "filtered"
    /\ calls' = calls \cup {"liveStateCache", "project"}
    /\ liveObjByKey' = ManagedLive(faults, policy, cacheLive)
    /\ IF "live" \in faults
       THEN /\ conditions' = Append(conditions, ComparisonError("GetManagedLiveObjs"))
            /\ failedToLoadObjs' = TRUE
       ELSE UNCHANGED <<conditions, failedToLoadObjs>>
    /\ pc' = "live"
    /\ UNCHANGED <<utilVars, inputs, targetObjs, reconciliation, diffResults, compRes,
                   appConditions, second>>

\* line 321
DoReconcile ==
    /\ pc = "live"
    /\ \E order \in Orders(PruneCandidates(targetObjs, liveObjByKey, DestNamespace,
                                           InfoProvider(faults))) :
         reconciliation' =
             Reconcile(targetObjs, liveObjByKey, DestNamespace, InfoProvider(faults), order)
    /\ pc' = "reconciled"
    /\ UNCHANGED <<utilVars, inputs, targetObjs, conditions, failedToLoadObjs, liveObjByKey,
                   diffResults, compRes, calls, appConditions, second>>

\* lines 325-330
DoDiff ==
    /\ pc = "reconciled"
    /\ calls' = calls \cup {"diff"}
    /\ IF "diff" \in faults
       THEN /\ diffResults' = << >>
            /\ failedToLoadObjs' = TRUE
            /\ conditions' = Append(conditions, ComparisonError("DiffArray"))
       ELSE /\ diffResults' = DiffArray(reconciliation.Target, reconciliation.Live)
            /\ UNCHANGED <<conditions, failedToLoadObjs>>
    /\ pc' = "diffed"
    /\ UNCHANGED <<utilVars, inputs, targetObjs, liveObjByKey, reconciliation, compRes,
                   appConditions, second>>

\* lines 332-436
BuildStatus ==
    /\ pc = "diffed"
    /\ compRes' = BuildResult(GivenSource, reconciliation.Target, reconciliation.Live,
                              diffResults, policy, faults, failedToLoadObjs)
    /\ IF compRes'.panicked
       THEN /\ pc' = "panic"
            /\ UNCHANGED <<calls, appConditions>>
       ELSE /\ pc' = "done"
            /\ calls' = calls \cup {"liveStateCache", "project", "health"}
            /\ appConditions' = SetConditions(appConditions, conditions, ReplacedTypes)
    /\ UNCHANGED <<utilVars, inputs, locals, second>>

\* CompareAppState is called again with the same arguments, its
\* collaborators answering as before
Repeat ==
    /\ pc = "done"
    /\ second' \in CompareAppStateResults(GivenSource, manifests, cacheLive, policy, faults)
    /\ pc' = "repeated"
    /\ UNCHANGED <<utilVars, inputs, locals, compRes, calls, appConditions>>

Next ==
    \/ LoadSettings
    \/ GetTargets
    \/ Deduplicate
    \/ ApplyFilter
    \/ GetLive
    \/ DoReconcile
    \/ DoDiff
    \/ BuildStatus
    \/ Repeat

Spec == Init /\ [][Next]_allVars

\* the result of the stepwise pass is one the function gives
ResultIsOfFunction ==
    pc = "done" =>
        compRes \in CompareAppStateResults(GivenSource, manifests, cacheLive, policy, faults)

\* ---------------------------------------------------------- WatchWithRetry
\* CompareAppState is not running
PassIdle ==
    /\ manifests = << >>
    /\ local = FALSE
    /\ cacheLive = {}
    /\ policy = PlainPolicy
    /\ faults = {}
    /\ pc = "start"
    /\ targetObjs = << >>
    /\ conditions = << >>
    /\ failedToLoadObjs = FALSE
    /\ liveObjByKey = {}
    /\ reconciliation = [Target |-> << >>, Live |-> << >>]
    /\ diffResults = << >>
    /\ compRes = NoResult
    /\ calls = {}
    /\ appConditions = << >>
    /\ second = NoResult

\* a counter that stops at its bound
CountUpTo(n, max) == IF n < max THEN n + 1 ELSE n

\* what the loop leaves alone when it neither sends nor closes
loopKeeps == <<ctxDone, chClosed, closes, sentEvents, sentErrors, receiving>>

\* lines 319-323: execute calls getWatch; an error is returned with
\* retry = false, a watch is kept open until execute returns
GetWatch ==
    /\ wpc = "getWatch"
    /\ opens' = CountUpTo(opens, MaxOpens)
    /\ \/ /\ retry' = FALSE
          /\ err' = TRUE
          /\ wpc' = "executed"
          /\ UNCHANGED <<watchOpen, resultChan>>
       \/ /\ watchOpen' = watchOpen + 1
          /\ resultChan' = "idle"
          /\ wpc' = "select"
          /\ UNCHANGED <<retry, err>>
    /\ UNCHANGED <<loopKeeps, relayed, besidesWatch>>

\* lines 327-332: an event is received from the watch
SelectEvent ==
    /\ wpc = "select"
    /\ resultChan = "event"
    /\ resultChan' = "idle"
    /\ held' = offered[Len(offered)]
    /\ wpc' = "sendEvent"
    /\ UNCHANGED <<watchOpen, retry, err, opens, loopKeeps, offered, forwarded, besidesWatch>>

\* an execute that returns, on a closed result channel, without stopping
\* its watch
SelectClosed_KeepsWatch ==
    /\ wpc = "select"
    /\ resultChan = "closed"
    /\ retry' = TRUE
    /\ err' = FALSE
    /\ wpc' = "executed"
    /\ UNCHANGED <<watchOpen, resultChan, opens, loopKeeps, relayed, besidesWatch>>

\* an execute that gives up when the result channel is closed
SelectClosed_GivesUp ==
    /\ wpc = "select"
    /\ resultChan = "closed"
    /\ retry' = FALSE
    /\ err' = FALSE
    /\ watchOpen' = watchOpen - 1
    /\ resultChan' = "none"
    /\ wpc' = "executed"
    /\ UNCHANGED <<opens, loopKeeps, relayed, besidesWatch>>

\* lines 327, 333-335 and 323: the result channel is closed, execute stops
\* the watch and returns true, nil
SelectClosed ==
    /\ wpc = "select"
    /\ resultChan = "closed"
    /\ retry' = TRUE
    /\ err' = FALSE
    /\ watchOpen' = watchOpen - 1
    /\ resultChan' = "none"
    /\ wpc' = "executed"
    /\ UNCHANGED <<opens, loopKeeps, relayed, besidesWatch>>

\* an execute that closes ch itself when ctx is done
SelectCancel_ClosesChannel ==
    /\ wpc = "select"
    /\ ctxDone
    /\ retry' = FALSE
    /\ err' = FALSE
    /\ watchOpen' = watchOpen - 1
    /\ resultChan' = "none"
    /\ chClosed' = TRUE
    /\ closes' = closes + 1
    /\ wpc' = "executed"
    /\ UNCHANGED <<opens, ctxDone, sentEvents, sentErrors, receiving, relayed, besidesWatch>>

\* lines 336-337 and 323: ctx is done, execute stops the watch and returns
\* false, nil
SelectCancel ==
    /\ wpc = "select"
    /\ ctxDone
    /\ retry' = FALSE
    /\ err' = FALSE
    /\ watchOpen' = watchOpen - 1
    /\ resultChan' = "none"
    /\ wpc' = "executed"
    /\ UNCHANGED <<opens, loopKeeps, relayed, besidesWatch>>

\* a send that gives the event up when the consumer does not receive
SendEvent_NonBlocking ==
    /\ wpc = "sendEvent"
    /\ ~chClosed
    /\ sentEvents' = IF receiving THEN CountUpTo(sentEvents, MaxItems) ELSE sentEvents
    /\ forwarded' = IF receiving THEN Append(forwarded, held) ELSE forwarded
    /\ held' = NoEvent
    /\ wpc' = "select"
    /\ UNCHANGED <<ctxDone, watchOpen, resultChan, retry, err, chClosed, closes, opens,
                   sentErrors, receiving, offered, besidesWatch>>

\* lines 329-332: the event is sent on ch, which has no buffer: the send
\* waits for the consumer to receive
SendEvent ==
    /\ wpc = "sendEvent"
    /\ receiving
    /\ ~chClosed
    /\ sentEvents' = CountUpTo(sentEvents, MaxItems)
    /\ forwarded' = Append(forwarded, held)
    /\ held' = NoEvent
    /\ wpc' = "select"
    /\ UNCHANGED <<ctxDone, watchOpen, resultChan, retry, err, chClosed, closes, opens,
                   sentErrors, receiving, offered, besidesWatch>>

\* lines 344-345 and 351-353: after execute the loop sends the error if
\* there is one, and else sleeps or returns
AfterExecute ==
    /\ wpc = "executed"
    /\ wpc' = IF err THEN "sendError" ELSE IF retry THEN "sleep" ELSE "closing"
    /\ UNCHANGED <<watchOpen, resultChan, retry, err, opens, loopKeeps, relayed, besidesWatch>>

\* lines 346-353: the error is sent on ch, then the loop sleeps or returns
SendError ==
    /\ wpc = "sendError"
    /\ receiving
    /\ ~chClosed
    /\ sentErrors' = CountUpTo(sentErrors, MaxItems)
    /\ wpc' = IF retry THEN "sleep" ELSE "closing"
    /\ UNCHANGED <<ctxDone, watchOpen, resultChan, retry, err, chClosed, closes, opens,
                   sentEvents, receiving, relayed, besidesWatch>>

\* line 354: time.Sleep(time.Second), then the next turn of the loop
Sleep ==
    /\ wpc = "sleep"
    /\ wpc' = "getWatch"
    /\ UNCHANGED <<watchOpen, resultChan, retry, err, opens, loopKeeps, relayed, besidesWatch>>

\* line 342: the deferred close(ch) of the goroutine that returns
CloseCh ==
    /\ wpc = "closing"
    /\ chClosed' = TRUE
    /\ closes' = closes + 1
    /\ wpc' = "ended"
    /\ UNCHANGED <<ctxDone, watchOpen, resultChan, retry, err, opens, sentEvents,
                   sentErrors, receiving, relayed, besidesWatch>>

\* the goroutine of lines 341-356
WatchLoop ==
    \/ GetWatch
    \/ SelectEvent
    \/ SelectClosed
    \/ SelectCancel
    \/ SendEvent
    \/ AfterExecute
    \/ SendError
    \/ Sleep
    \/ CloseCh

\* the caller cancels ctx
Cancel ==
    /\ ~ctxDone
    /\ ctxDone' = TRUE
    /\ UNCHANGED <<wpc, watchOpen, resultChan, retry, err, chClosed, closes, opens,
                   sentEvents, sentErrors, receiving, relayed, besidesWatch>>

\* the open watch has an event to deliver, while the watches have
\* delivered fewer than MaxItems
UpstreamEvent ==
    /\ resultChan = "idle"
    /\ Len(offered) < MaxItems
    /\ resultChan' = "event"
    /\ offered' = Append(offered, WatchEvent(opens, Len(offered) + 1))
    /\ UNCHANGED <<wpc, watchOpen, retry, err, opens, loopKeeps, held, forwarded, besidesWatch>>

\* the open watch closes its result channel
UpstreamClose ==
    /\ resultChan = "idle"
    /\ resultChan' = "closed"
    /\ UNCHANGED <<wpc, watchOpen, retry, err, opens, loopKeeps, relayed, besidesWatch>>

\* the consumer stops receiving from ch
ConsumerStops ==
    /\ receiving
    /\ receiving' = FALSE
    /\ UNCHANGED <<wpc, ctxDone, watchOpen, resultChan, retry, err, chClosed, closes, opens,
                   sentEvents, sentErrors, relayed, besidesWatch>>

WatchInit == PassIdle /\ WatchStart /\ RetryIdle /\ HistoryIdle

WatchNext ==
    \/ GetWatch
    \/ SelectEvent
    \/ SelectClosed
    \/ SelectCancel
    \/ SendEvent
    \/ AfterExecute
    \/ SendError
    \/ Sleep
    \/ CloseCh
    \/ Cancel
    \/ UpstreamEvent
    \/ UpstreamClose
    \/ ConsumerStops

WatchSpec == WatchInit /\ [][WatchNext]_allVars

\* the goroutine runs whenever it can, and a select with several ready
\* cases picks each of them sooner or later (the runtime picks at random)
WatchLiveSpec ==
    /\ WatchInit
    /\ [][WatchNext]_allVars
    /\ WF_allVars(WatchLoop)
    /\ SF_allVars(SelectCancel)

\* ------------------------------------------------------- RetryUntilSucceed
\* what the caller's goroutine leaves alone
mainKeeps == <<gpc, retryCtxDone, ctxCompleted>>

\* an attempt after which the loop goes on whatever action returned
Attempt_IgnoresSuccess ==
    /\ rpc = "action"
    /\ attempts' = CountUpTo(attempts, MaxAttempts)
    /\ succeeded' \in BOOLEAN
    /\ rpc' = "check"
    /\ UNCHANGED <<stopClosed, observed, mainKeeps, besidesRetry>>

\* lines 382-386: action is called; when it returns nil the function
\* returns
Attempt ==
    /\ rpc = "action"
    /\ attempts' = CountUpTo(attempts, MaxAttempts)
    /\ \E ok \in BOOLEAN :
          /\ succeeded' = ok
          /\ rpc' = IF ok THEN "returning" ELSE "check"
    /\ UNCHANGED <<stopClosed, observed, mainKeeps, besidesRetry>>

\* a check that reads the flag and retries all the same
CheckCtx_KeepsRetrying ==
    /\ rpc = "check"
    /\ observed' = ctxCompleted
    /\ rpc' = "sleep"
    /\ UNCHANGED <<stopClosed, attempts, succeeded, mainKeeps, besidesRetry>>

\* lines 387-391: the flag is read; the goroutine that writes it is not
\* synchronised with this read, which sees the write or does not according
\* to which of the two comes first
CheckCtx ==
    /\ rpc = "check"
    /\ IF ctxCompleted
       THEN /\ observed' = TRUE
            /\ rpc' = "returning"
       ELSE /\ rpc' = "sleep"
            /\ UNCHANGED observed
    /\ UNCHANGED <<stopClosed, attempts, succeeded, mainKeeps, besidesRetry>>

\* line 392: time.Sleep(timeout)
RetrySleep ==
    /\ rpc = "sleep"
    /\ rpc' = "action"
    /\ UNCHANGED <<stopClosed, attempts, succeeded, observed, mainKeeps, besidesRetry>>

\* line 372: the deferred close(stop) of the function that returns
Return ==
    /\ rpc = "returning"
    /\ stopClosed' = TRUE
    /\ rpc' = "returned"
    /\ UNCHANGED <<attempts, succeeded, observed, mainKeeps, besidesRetry>>

\* lines 374-375: the goroutine receives from ctx.Done()
WatcherCtxDone ==
    /\ gpc = "select"
    /\ retryCtxDone
    /\ gpc' = "write"
    /\ UNCHANGED <<rpc, retryCtxDone, ctxCompleted, stopClosed, attempts, succeeded,
                   observed, besidesRetry>>

\* line 376: ctxCompleted = true
WatcherWrite ==
    /\ gpc = "write"
    /\ ctxCompleted' = TRUE
    /\ gpc' = "exit"
    /\ UNCHANGED <<rpc, retryCtxDone, stopClosed, attempts, succeeded, observed, besidesRetry>>

\* line 377: the goroutine receives from the closed stop
WatcherStop ==
    /\ gpc = "select"
    /\ stopClosed
    /\ gpc' = "exit"
    /\ UNCHANGED <<rpc, retryCtxDone, ctxCompleted, stopClosed, attempts, succeeded,
                   observed, besidesRetry>>

\* the caller's context is canceled
RetryCancel ==
    /\ ~retryCtxDone
    /\ retryCtxDone' = TRUE
    /\ UNCHANGED <<rpc, gpc, ctxCompleted, stopClosed, attempts, succeeded, observed, besidesRetry>>

\* the goroutine of the caller, lines 380-394
RetryMain == Attempt \/ CheckCtx \/ RetrySleep \/ Return

\* the goroutine of lines 373-379
RetryWatcher == WatcherCtxDone \/ WatcherWrite \/ WatcherStop

RetryInit == PassIdle /\ WatchStart /\ RetryStart /\ HistoryIdle

RetryNext ==
    \/ Attempt
    \/ CheckCtx
    \/ RetrySleep
    \/ Return
    \/ WatcherCtxDone
    \/ WatcherWrite
    \/ WatcherStop
    \/ RetryCancel

RetrySpec == RetryInit /\ [][RetryNext]_allVars

\* both goroutines run whenever they can: action and the sleep return
RetryLiveSpec ==
    /\ RetryInit
    /\ [][RetryNext]_allVars
    /\ WF_allVars(RetryMain)
    /\ WF_allVars(RetryWatcher)

\* ------------------------------------------------ persistRevisionHistory
\* lines 439-463: the entry is appended to app.Status.History, the history
\* is cut to the limit and sent whole as a merge patch; when the patch
\* fails the API server keeps what it has and the call returns the error
PersistRevisionHistory ==
    /\ Len(persisted) < MaxCalls
    /\ \E revision \in Revisions, source \in Sources, patchFails \in BOOLEAN :
         /\ history' = PersistedHistory(history, revision, source, Len(persisted) + 1, limit)
         /\ persisted' = Append(persisted, [Revision |-> revision, Source |-> source])
         /\ patched' = IF patchFails THEN patched ELSE history'
         /\ persistErr' = patchFails
    /\ UNCHANGED <<limit, vars, watchVars, retryVars>>

HistoryInit == PassIdle /\ WatchStart /\ RetryIdle /\ HistoryStart

HistoryNext == PersistRevisionHistory

\* the calls of persistRevisionHistory on one application, one after the
\* other
HistorySpec == HistoryInit /\ [][HistoryNext]_allVars

\* ------------------------------------------------------------------- claims
\* how far the pass has come
PcRank ==
    [start |-> 0, settings |-> 1, targets |-> 2, deduped |-> 3, filtered |-> 4,
     live |-> 5, reconciled |-> 6, diffed |-> 7, panic |-> 8, done |-> 8, repeated |-> 9]

After(step) == PcRank[pc] >= PcRank[step]

ErrorsOf(conds, steps) ==
    {i \in 1..Len(conds) : conds[i].type = "ComparisonError" /\ conds[i].step \in steps}

AllUnknown(res) ==
    /\ res.syncStatus.status = "Unknown"
    /\ \A i \in 1..Len(res.resources) : res.resources[i].status = "Unknown"

\* C1: a pass that returns with failedToLoadObjs set returns the aggregate
\* syncStatus Unknown and the status Unknown in every entry of resources.
C1_MonotoneFailure ==
    (compRes.returned /\ failedToLoadObjs) => AllUnknown(compRes)

\* a failed load with two slots, one of them a hook
C1_Witness ==
    /\ pc = "done"
    /\ failedToLoadObjs
    /\ Len(compRes.resources) = 2
    /\ \E i \in 1..2 : compRes.resources[i].hook
    /\ \E i \in 1..2 : ~compRes.resources[i].hook

\* C2: a pass whose diff computation fails still returns a result, with
\* failedToLoadObjs set and one ComparisonError of the diff, whatever the
\* number of reconciled slots.
C2_DiffFailureCompletes ==
    ("diff" \in faults /\ After("panic")) =>
        /\ compRes.returned
        /\ ~compRes.panicked
        /\ failedToLoadObjs
        /\ Cardinality(ErrorsOf(conditions, {"DiffArray"})) = 1

LoadSteps == {"getRepoObjs", "unmarshalManifests", "GetManagedLiveObjs", "DiffArray"}
ErrorSteps == LoadSteps \cup {"GetResourcesFilter", "DeduplicateTargetObjects"}

\* the ComparisonError a failing collaborator has added once its step is
\* over, in a pass whose settings loaded
FaultRecorded(fault, step, stepNames) ==
    (fault \in faults /\ "settings" \notin faults /\ After(step)) =>
        ErrorsOf(conditions, stepNames) # {}

\* C3 as stated: every ComparisonError recorded before the health evaluation
\* comes with failedToLoadObjs, and a pass that returns with one returns the
\* aggregate Unknown.
C3_EveryErrorSetsFlag ==
    (After("settings") /\ ErrorsOf(conditions, ErrorSteps) # {}) =>
        /\ failedToLoadObjs
        /\ compRes.returned => compRes.syncStatus.status = "Unknown"

\* C3 amended: a failure of manifest generation, of local manifest parsing,
\* of the live state fetch or of the diff adds a ComparisonError and sets
\* failedToLoadObjs, and a pass that returns after one returns the aggregate
\* Unknown; a failure to load the resources filter adds a ComparisonError
\* and leaves failedToLoadObjs as it was.
C3_LoadErrorsSetFlag ==
    /\ FaultRecorded("manifest", "targets", {"getRepoObjs", "unmarshalManifests"})
    /\ FaultRecorded("filter", "filtered", {"GetResourcesFilter"})
    /\ FaultRecorded("live", "live", {"GetManagedLiveObjs"})
    /\ FaultRecorded("diff", "diffed", {"DiffArray"})
    /\ (After("settings") /\ ErrorsOf(conditions, LoadSteps) # {}) =>
           /\ failedToLoadObjs
           /\ compRes.returned => compRes.syncStatus.status = "Unknown"
    /\ (After("settings") /\ ErrorsOf(conditions, ErrorSteps) \subseteq
                                ErrorsOf(conditions, {"GetResourcesFilter"})) =>
           ~failedToLoadObjs

\* a pass that returned after the live state fetch failed
C3_Witness ==
    /\ pc = "done"
    /\ "live" \in faults
    /\ ErrorsOf(conditions, {"GetManagedLiveObjs"}) # {}
    /\ Len(compRes.resources) > 0

\* C4: when the comparison settings do not load the pass returns at once
\* syncStatus Unknown compared to the given source and the destination of
\* the app, healthStatus Unknown, no resources and no managedResources, and
\* has called neither the manifest source nor the live state cache.
C4_SettingsErrorReturnsUnknown ==
    ("settings" \in faults /\ After("settings")) =>
        /\ pc \in {"done", "repeated"}
        /\ compRes.returned
        /\ compRes.syncStatus =
               [status |-> "Unknown", source |-> GivenSource, destination |-> AppDestination]
        /\ compRes.healthStatus = "Unknown"
        /\ compRes.resources = << >>
        /\ compRes.managedResources = << >>
        /\ calls \cap {"manifestSource", "liveStateCache"} = {}

\* the settings failed with manifests and live objects at hand
C4_Witness ==
    /\ pc = "done"
    /\ "settings" \in faults
    /\ Len(manifests) > 0
    /\ cacheLive # {}

\* a pass none of whose loads failed
LoadedAll == compRes.returned /\ faults \cap {"settings", "manifest", "live", "diff"} = {}

\* the object a slot of the result is summarised from
ObjOf(m) == IF m.Live # Nil THEN m.Live ELSE m.Target

KeyAt(ns, obj, clusterScoped) ==
    [gk |-> obj.gk,
     ns |-> IF clusterScoped THEN "" ELSE IF obj.ns = "" THEN ns ELSE obj.ns,
     name |-> obj.name]

\* the key of a target once its namespace is imputed
ImputedKey(obj) ==
    KeyAt(DestNamespace, obj, "cache" \in faults \/ obj.gk \notin NamespacedKinds)

HookTargets == {h \in TargetUniverse : "hook" \in h.ann}

\* no live object at all, or one live object of the key of target h
Counterparts(h) ==
    {{}} \cup {{l} : l \in {o \in LiveUniverse : GetResourceKey(o) = ImputedKey(h)}}

IsFresh(h) ==
    /\ \A i \in 1..Len(manifests) : ImputedKey(manifests[i]) # ImputedKey(h)
    /\ \A o \in cacheLive : GetResourceKey(o) # ImputedKey(h)

\* C5: adding to the inputs of a pass a resource whose target manifest is
\* hook annotated, with no live counterpart or with any one, leaves the
\* aggregate syncStatus of the pass as it was.
C5_HookNeutrality ==
    (pc = "done") =>
        \A h \in HookTargets : IsFresh(h) =>
            \A lv \in Counterparts(h) :
                \A r \in CompareAppStateResults(GivenSource, Append(manifests, h),
                                                cacheLive \cup lv, policy, faults) :
                    r.returned => r.syncStatus.status = compRes.syncStatus.status

\* the slot is one the aggregate counts as out of sync
CountsOutOfSync(m) ==
    /\ ~m.Hook
    /\ "ignore" \notin ObjOf(m).ann
    /\ (m.Diff.modified \/ m.Target = Nil \/ m.Live = Nil)
    /\ ~(m.Target = Nil /\ m.Live # Nil /\ "extraneous" \in ObjOf(m).ann)

\* the project permits the group/kind of the slot at its scope
PermittedSlot(m) ==
    <<m.gk, "cache" \notin faults /\ m.gk \in NamespacedKinds>> \notin policy.denied

\* C6: in a pass without load failure the aggregate is OutOfSync exactly
\* when some slot that is neither hook nor Ignore annotated is modified or
\* lacks a side and is no prune candidate with IgnoreExtraneous, and Synced
\* otherwise; each slot that is neither hook nor Ignore annotated and that
\* the project permits is OutOfSync when modified or lacking a side, and
\* Synced otherwise.
C6_AggregateSyncStatus ==
    LoadedAll =>
        LET ms == compRes.managedResources
            rs == compRes.resources
        IN  /\ compRes.syncStatus.status =
                   (IF \E i \in 1..Len(ms) : CountsOutOfSync(ms[i])
                    THEN "OutOfSync" ELSE "Synced")
            /\ \A i \in 1..Len(ms) :
                   (~ms[i].Hook /\ "ignore" \notin ObjOf(ms[i]).ann /\ PermittedSlot(ms[i])) =>
                       rs[i].status =
                           (IF ms[i].Diff.modified \/ ms[i].Target = Nil \/ ms[i].Live = Nil
                            THEN "OutOfSync" ELSE "Synced")

\* a modified pair, OutOfSync, beside a hook that has no live object
C6_Witness ==
    /\ pc = "done"
    /\ LoadedAll
    /\ Len(compRes.managedResources) = 2
    /\ compRes.syncStatus.status = "OutOfSync"
    /\ \E i \in 1..2 : /\ compRes.managedResources[i].Diff.modified
                       /\ compRes.resources[i].status = "OutOfSync"
    /\ \E i \in 1..2 : compRes.managedResources[i].Hook

\* a prune candidate that carries IgnoreExtraneous
ExtraneousSlot(m) == m.Target = Nil /\ m.Live # Nil /\ "extraneous" \in m.Live.ann

OthersSynced(rs, i) == \A j \in 1..Len(rs) : j # i => rs[j].status = "Synced"

\* C7 as stated: in a pass without load failure every live object without
\* target that carries IgnoreExtraneous has a slot with no target,
\* requiresPruning and the status OutOfSync, and the aggregate is Synced
\* when every other slot is Synced.
C7_ExtraneousIsOutOfSync ==
    LoadedAll =>
        \A i \in 1..Len(compRes.managedResources) :
            ExtraneousSlot(compRes.managedResources[i]) =>
                /\ compRes.resources[i].requiresPruning
                /\ compRes.resources[i].status = "OutOfSync"
                /\ OthersSynced(compRes.resources, i) => compRes.syncStatus.status = "Synced"

\* C7 amended: in a pass without load failure every live object without
\* target that carries IgnoreExtraneous has a slot with no target and
\* requiresPruning, and the aggregate is Synced when every other slot is
\* Synced; the status of the slot is OutOfSync when the object is neither a
\* hook nor Ignore annotated and the project permits its group/kind, empty
\* when it is a hook or Ignore annotated and the project permits its
\* group/kind, and Unknown when the project forbids its group/kind.
C7_ExtraneousDoesNotDowngrade ==
    LoadedAll =>
        \A i \in 1..Len(compRes.managedResources) :
            LET m == compRes.managedResources[i]
                r == compRes.resources[i]
            IN  ExtraneousSlot(m) =>
                    /\ r.requiresPruning
                    /\ r.status =
                           (IF ~PermittedSlot(m) THEN "Unknown"
                            ELSE IF "hook" \in m.Live.ann \/ "ignore" \in m.Live.ann THEN ""
                            ELSE "OutOfSync")
                    /\ OthersSynced(compRes.resources, i) =>
                           compRes.syncStatus.status = "Synced"

\* an IgnoreExtraneous prune candidate that is OutOfSync under the
\* aggregate Synced
C7_Witness ==
    /\ pc = "done"
    /\ LoadedAll
    /\ compRes.syncStatus.status = "Synced"
    /\ \E i \in 1..Len(compRes.resources) :
           /\ ExtraneousSlot(compRes.managedResources[i])
           /\ compRes.resources[i].status = "OutOfSync"
           /\ compRes.resources[i].requiresPruning
           /\ OthersSynced(compRes.resources, i)

\* the objects DeduplicateTargetObjects was given in this pass
DedupInput == LoadedTargets(faults, manifests)

\* how many objects of the input have the key of the i-th one
Multiplicity(in, i) ==
    Cardinality({j \in 1..Len(in) : ImputedKey(in[j]) = ImputedKey(in[i])})

RepeatedWarningsOf(conds, key) ==
    {c \in 1..Len(conds) : conds[c].type = "RepeatedResourceWarning" /\ conds[c].key = key}

\* C8: DeduplicateTargetObjects returns one object for each key of its
\* input, the key taken after namespace imputation; the object returned for
\* a key is the last of the input with that key; a key that occurs more
\* than once has exactly one RepeatedResourceWarning, whose count is the
\* number of input objects of that key, and a key that occurs once has none.
C8_DedupStability ==
    (pc = "deduped") =>
        LET in == DedupInput
        IN  /\ \A i \in 1..Len(in) :
                   Cardinality({j \in 1..Len(targetObjs) :
                       GetResourceKey(targetObjs[j]) = ImputedKey(in[i])}) = 1
            /\ \A j \in 1..Len(targetObjs) :
                   \E i \in 1..Len(in) :
                       /\ targetObjs[j] = [in[i] EXCEPT !.ns = ImputedKey(in[i]).ns]
                       /\ \A k \in (i + 1)..Len(in) : ImputedKey(in[k]) # ImputedKey(in[i])
            /\ \A i \in 1..Len(in) :
                   LET ws == RepeatedWarningsOf(conditions, ImputedKey(in[i]))
                   IN  /\ Cardinality(ws) = (IF Multiplicity(in, i) > 1 THEN 1 ELSE 0)
                       /\ \A c \in ws : conditions[c].count = Multiplicity(in, i)
            /\ \A c \in 1..Len(conditions) :
                   conditions[c].type = "RepeatedResourceWarning" =>
                       \E i \in 1..Len(in) : conditions[c].key = ImputedKey(in[i])

\* two manifests of one key that differ, the second of which survived, as
\* the warning of count 2 says
C8_Witness ==
    /\ pc = "deduped"
    /\ Len(manifests) = 2
    /\ manifests[1].ns # manifests[2].ns
    /\ manifests[1].ann # manifests[2].ann
    /\ Len(targetObjs) = 1
    /\ targetObjs[1].ann = manifests[2].ann
    /\ \E c \in 1..Len(conditions) :
           conditions[c].type = "RepeatedResourceWarning" /\ conditions[c].count = 2

\* the slots with a target come before the slots without
TargetsFirst(ms) ==
    \A i, j \in 1..Len(ms) : (ms[i].Target = Nil /\ ms[j].Target # Nil) => j < i

\* C9: the slots with a target come first and the prune slots after them,
\* and a second pass over the same inputs returns resources and
\* managedResources in the same index order as the first.
C9_SlotOrderIsStable ==
    /\ compRes.returned => TargetsFirst(compRes.managedResources)
    /\ (pc = "repeated" /\ second.returned) =>
           /\ second.resources = compRes.resources
           /\ second.managedResources = compRes.managedResources

IdentityOf(m) == <<m.gk, m.ns, m.name>>

\* C10: the identities (group/kind, namespace, name) of the managedResources
\* of a result are pairwise distinct.
C10_SlotIdentitiesDistinct ==
    compRes.returned =>
        \A i, j \in 1..Len(compRes.managedResources) :
            IdentityOf(compRes.managedResources[i]) = IdentityOf(compRes.managedResources[j])
                => i = j

\* two manifests of one key, reconciled into one slot beside a prune slot
C10_Witness ==
    /\ pc = "done"
    /\ Len(manifests) = 2
    /\ ImputedKey(manifests[1]) = ImputedKey(manifests[2])
    /\ Len(compRes.managedResources) = 2
    /\ \E i \in 1..2 : compRes.managedResources[i].Target = Nil
    /\ \E i \in 1..2 : compRes.managedResources[i].Target # Nil

\* C11: in every result of a pass resources and managedResources have the
\* length of the reconciliation, and entry i of both names the same
\* group/kind, namespace, name and hook flag and describes slot i of the
\* reconciliation.
C11_ResourcesCorrespond ==
    compRes.returned =>
        LET rs == compRes.resources
            ms == compRes.managedResources
        IN  /\ Len(rs) = Len(ms)
            /\ Len(ms) = Len(reconciliation.Target)
            /\ \A i \in 1..Len(ms) :
                   /\ <<rs[i].gk, rs[i].ns, rs[i].name, rs[i].hook>> =
                          <<ms[i].gk, ms[i].ns, ms[i].name, ms[i].Hook>>
                   /\ ms[i].Target = reconciliation.Target[i]
                   /\ ms[i].Live = reconciliation.Live[i]
                   /\ rs[i].requiresPruning = (ms[i].Target = Nil /\ ms[i].Live # Nil)

\* two slots, one of them a target whose live object differs from it in the
\* hook annotation
C11_Witness ==
    /\ pc = "done"
    /\ Len(compRes.resources) = 2
    /\ \E i \in 1..2 :
           LET m == compRes.managedResources[i]
           IN  m.Target # Nil /\ m.Live # Nil /\ IsHook(m.Target) # IsHook(m.Live)

\* C12: a slot whose group/kind the project forbids at its scope is in the
\* result with the status Unknown, and the aggregate syncStatus is the one
\* the pass returns when the project forbids no group/kind.
C12_ForbiddenKindKeepsAggregate ==
    (pc = "done" /\ compRes.returned) =>
        /\ \A i \in 1..Len(compRes.managedResources) :
               ~PermittedSlot(compRes.managedResources[i]) =>
                   compRes.resources[i].status = "Unknown"
        /\ \A r \in CompareAppStateResults(GivenSource, manifests, cacheLive,
                                          [policy EXCEPT !.denied = {}], faults) :
               /\ r.returned
               /\ r.syncStatus.status = compRes.syncStatus.status
               /\ Len(r.resources) = Len(compRes.resources)

\* a forbidden target without live object, Unknown under the aggregate
\* OutOfSync, beside a permitted slot
C12_Witness ==
    /\ pc = "done"
    /\ compRes.syncStatus.status = "OutOfSync"
    /\ Len(compRes.resources) = 2
    /\ \E i \in 1..2 :
           /\ ~PermittedSlot(compRes.managedResources[i])
           /\ compRes.managedResources[i].Live = Nil
           /\ compRes.resources[i].status = "Unknown"
    /\ \E i \in 1..2 : PermittedSlot(compRes.managedResources[i])

\* the goroutine of WatchWithRetry takes a step from position p
LoopLeaves(p) == wpc = p /\ wpc' # p

\* C13: when getWatch returns an error the loop sends one Error item on ch
\* and then sleeps, to call getWatch again; ch is closed only after ctx is
\* canceled.
C13_OpenErrorRetries ==
    /\ [][(LoopLeaves("executed") /\ err) => wpc' = "sendError"]_allVars
    /\ [][LoopLeaves("sendError") =>
             (sentErrors' = CountUpTo(sentErrors, MaxItems) /\ wpc' = "sleep")]_allVars
    /\ [][LoopLeaves("sleep") => wpc' = "getWatch"]_allVars
    /\ [](chClosed => ctxDone)

\* C14: once ctx is canceled the loop that has called getWatch does not
\* call it again.
C14_NoOpenAfterCancel ==
    [][(ctxDone /\ opens >= 1) => opens' = opens]_allVars

\* C15: once ctx is canceled ch is closed in the end, whatever the consumer
\* and the watch do.
C15_CancelCloses == ctxDone ~> chClosed

\* C16: ch is closed at most once, by the goroutine that returns, and no
\* item is sent on it once it is closed.
C16_ClosedOnceNoSendAfter ==
    /\ [](closes <= 1 /\ chClosed = (closes = 1) /\ chClosed = (wpc = "ended"))
    /\ [][chClosed => (sentEvents' = sentEvents /\ sentErrors' = sentErrors)]_allVars
    /\ [][chClosed' # chClosed => LoopLeaves("closing")]_allVars

\* ch closed after events and an error were sent on it
C16_Witness ==
    /\ chClosed
    /\ closes = 1
    /\ sentEvents >= 1
    /\ opens >= 2
    /\ ctxDone

\* C17: at most one watch is open at any time; none is open when getWatch
\* is called, nor when the loop sleeps, sends an error or has ended.
C17_OneWatchOpen ==
    /\ watchOpen <= 1
    /\ watchOpen = (IF wpc \in {"select", "sendEvent"} THEN 1 ELSE 0)
    /\ (resultChan # "none") = (watchOpen = 1)

\* the second watch is open, the first was closed by the upstream
C17_Witness ==
    /\ wpc = "select"
    /\ opens >= 2
    /\ watchOpen = 1
    /\ retry

\* C18: when the result channel of the watch is closed, and ctx is not
\* done, the loop neither closes ch nor sends an item: it sleeps and then
\* calls getWatch again.
C18_UpstreamCloseIsTransient ==
    /\ [][(LoopLeaves("select") /\ resultChan = "closed" /\ ~ctxDone) =>
             (retry' /\ ~err' /\ wpc' = "executed")]_allVars
    /\ [][(LoopLeaves("executed") /\ retry /\ ~err) =>
             (wpc' = "sleep" /\ ~chClosed' /\ sentErrors' = sentErrors
              /\ sentEvents' = sentEvents)]_allVars
    /\ [][LoopLeaves("sleep") => (wpc' = "getWatch" /\ ~chClosed')]_allVars
    /\ [][LoopLeaves("getWatch") => opens' = CountUpTo(opens, MaxOpens)]_allVars

\* getWatch is called again after the result channel was closed
C18_Witness ==
    /\ wpc = "getWatch"
    /\ retry
    /\ ~err
    /\ opens = 1
    /\ ~chClosed
    /\ sentErrors = 0

\* the function is returning or has returned
Returning == rpc \in {"returning", "returned"}

\* C19: RetryUntilSucceed returns only after an attempt, also when ctx is
\* canceled on entry, and makes no attempt once it has read the
\* cancellation.
C19_AttemptsOnceStopsWhenObserved ==
    /\ [](Returning => attempts >= 1)
    /\ [](observed => Returning)
    /\ [][observed => attempts' = attempts]_allVars

\* one failed attempt, then the cancellation is read and the function
\* returns
C19_Witness ==
    /\ rpc = "returned"
    /\ observed
    /\ attempts = 1
    /\ ~succeeded

\* C20: the function returns only after a successful attempt or after it
\* has read the cancellation; it makes no attempt after a successful one;
\* once ctx is canceled, or an attempt has succeeded, it returns in the
\* end; while ctx is not canceled and no attempt succeeds it attempts again
\* and again.
C20_ReturnsOnSuccessOrCancel ==
    /\ [](Returning => (succeeded \/ observed))
    /\ [](succeeded => Returning)
    /\ [][succeeded => attempts' = attempts]_allVars
    /\ (retryCtxDone ~> rpc = "returned")
    /\ (succeeded ~> rpc = "returned")
    /\ (<>(retryCtxDone \/ succeeded) \/ []<>(rpc = "action"))

\* the function returned after failed attempts, on the cancellation
C20_Witness ==
    /\ rpc = "returned"
    /\ ~succeeded
    /\ observed
    /\ attempts >= 2
    /\ gpc = "exit"

\* C22: a pass leaves its inputs as they were: once it has returned, the
\* conditions of the Application are those it was given (none), and the
\* map obtained from the live state cache holds what it held when it was
\* obtained.
C22_InputsUnchanged ==
    /\ pc \in {"done", "repeated"} => appConditions = << >>
    /\ (After("live") /\ "settings" \notin faults) =>
           liveObjByKey = ObtainedLive(faults, cacheLive)

\* C23: the hook flag of a slot that has a target, in resources and in
\* managedResources, is that of the target manifest, whatever the
\* annotations of the live object of the slot.
C23_HookFlagOfTarget ==
    compRes.returned =>
        \A i \in 1..Len(compRes.managedResources) :
            LET m == compRes.managedResources[i]
            IN  m.Target # Nil =>
                    /\ m.Hook = IsHook(m.Target)
                    /\ compRes.resources[i].hook = IsHook(m.Target)


\* ------------------------------------------------- the resources filter
ExcludedAt(objs) == {i \in 1..Len(objs) : IsExcludedResource(policy, objs[i].gk)}

NotExcluded(obj) == ~IsExcludedResource(policy, obj.gk)

\* the positions of a sequence of conditions, from position n on, that hold
\* the condition c
PositionsOf(conds, n, c) == {k \in n..Len(conds) : conds[k] = c}

FilterLoaded == faults \cap {"settings", "filter"} = {}

\* the step of the pass that applies a filter that loaded
FilterStep == pc = "deduped" /\ pc' = "filtered" /\ "filter" \notin faults

\* what the filter step does to the targets and to the conditions
FilterEffect ==
    /\ targetObjs' = SelectSeq(targetObjs, NotExcluded)
    /\ SubSeq(conditions', 1, Len(conditions)) = conditions
    /\ Len(conditions') = Len(conditions) + Cardinality(ExcludedAt(targetObjs))
    /\ \A k \in (Len(conditions) + 1)..Len(conditions') :
          \E i \in ExcludedAt(targetObjs) :
              conditions'[k] = ExcludedResourceWarning(targetObjs[i])
    /\ \A i \in ExcludedAt(targetObjs) :
          Cardinality(PositionsOf(conditions', Len(conditions) + 1,
                                  ExcludedResourceWarning(targetObjs[i])))
            = Cardinality({j \in ExcludedAt(targetObjs) :
                             ExcludedResourceWarning(targetObjs[j])
                               = ExcludedResourceWarning(targetObjs[i])})
    /\ liveObjByKey' = {} /\ reconciliation' = reconciliation

\* no excluded target is left once the filter has been applied, neither
\* among the targets nor in the reconciliation nor in a slot of the result
NoExcludedLeft ==
    (FilterLoaded /\ After("filtered")) =>
        /\ ExcludedAt(targetObjs) = {}
        /\ pc \in {"reconciled", "diffed"} =>
              \A i \in 1..Len(reconciliation.Target) :
                  reconciliation.Target[i] # Nil => NotExcluded(reconciliation.Target[i])
        /\ compRes.returned =>
              \A i \in 1..Len(compRes.managedResources) :
                  compRes.managedResources[i].Target # Nil =>
                      NotExcluded(compRes.managedResources[i].Target)

EventsOf(events, w) == SelectSeq(events, LAMBDA e : e.watch = w)

IsPrefix(p, q) == Len(p) <= Len(q) /\ SubSeq(q, 1, Len(p)) = p

\* the events execute has received: those it sent and the one it holds
Received == IF held = NoEvent THEN forwarded ELSE Append(forwarded, held)

\* the output is made of events the watches delivered, each once, watch
\* after watch in the order of opening and, of each watch, the first
\* events in the order delivered; execute holds an event only while it
\* sends it, and until ctx is canceled it has received every event but
\* the one not yet taken
Relayed ==
    /\ \A i \in 1..Len(forwarded) : \E k \in 1..Len(offered) : forwarded[i] = offered[k]
    /\ \A i, j \in 1..Len(forwarded) : forwarded[i] = forwarded[j] => i = j
    /\ \A i, j \in 1..Len(forwarded) : i < j => forwarded[i].watch <= forwarded[j].watch
    /\ \A w \in 1..MaxOpens : IsPrefix(EventsOf(forwarded, w), EventsOf(offered, w))
    /\ held # NoEvent <=> wpc = "sendEvent"
    /\ IsPrefix(Received, offered)
    /\ Len(offered) - Len(Received) \in {0, 1}
    /\ ~ctxDone => Len(offered) - Len(Received) = IF resultChan = "event" THEN 1 ELSE 0
    /\ Len(forwarded) = sentEvents

\* an event that execute holds leaves it only by being sent
HeldIsSent == (held # NoEvent /\ held' # held) => forwarded' = Append(forwarded, held)

\* C26: WatchWithRetry forwards the events of each watch in the order
\* received, each at most once and none invented: the Event items of the
\* output are, watch after watch in the order of opening, the first events
\* of each watch, and no event that was received is dropped.
C26_EventsRelayedInOrder == []Relayed /\ [][HeldIsSent]_allVars

\* events of two watches have been forwarded
C26_Witness ==
    /\ Len(forwarded) = 2
    /\ forwarded[1].watch = 1
    /\ forwarded[2].watch = 2

\* ------------------------------------------------ persistRevisionHistory
Last(h) == h[Len(h)]

\* the entry is the one made of the revision and source given last
IsOfLastCall(e) ==
    /\ e.Revision = Last(persisted).Revision
    /\ e.Source = Last(persisted).Source
    /\ e.DeployedAt = Len(persisted)

\* a step that is a call of persistRevisionHistory
PersistStep == persisted' # persisted

\* the last n entries of a history
Newest(h, n) == [i \in 1..n |-> h[Len(h) - n + i]]

Min(a, b) == IF a < b THEN a ELSE b

\* the call appends one entry made of what it was given, keeps the newest
\* entries up to the limit and patches the history it kept
AppendsTruncatesPatches ==
    /\ \E e \in [Revision : Revisions, DeployedAt : 1..MaxCalls + 1,
                  ID : -(MaxID + 1)..MaxID, Source : Sources] :
          /\ e.Revision = Last(persisted').Revision
          /\ e.Source = Last(persisted').Source
          /\ history' = Newest(Append(history, e), Min(limit, Len(history) + 1))
    /\ patched' = IF persistErr' THEN patched ELSE history'

\* C21 as stated: after any calls the history is no longer than the limit
\* and its last entry is the one persisted last.
C21_LastIsNewest ==
    persisted # << >> =>
        /\ Len(history) <= limit
        /\ history # << >>
        /\ IsOfLastCall(Last(history))

\* C21: persistRevisionHistory appends one entry of the revision and source
\* given, cuts the history to the limit and patches the whole array; after
\* any calls the history is no longer than the limit, its last entry is
\* the one persisted last when the limit is at least 1, and it is empty
\* when the limit is 0.
C21_AppendsOneAndTruncates ==
    /\ [](persisted # << >> =>
            /\ Len(history) <= limit
            /\ limit >= 1 => history # << >> /\ IsOfLastCall(Last(history))
            /\ limit = 0 => history = << >>)
    /\ [][PersistStep => AppendsTruncatesPatches]_allVars

\* a second call has pushed the entry of the first out of a history of
\* limit 1, and the patch was accepted
C21_Witness ==
    /\ Len(persisted) >= 2
    /\ limit = 1
    /\ Len(history) = 1
    /\ IsOfLastCall(Last(history))
    /\ patched = history
    /\ ~persistErr

\* C25 as stated: the IDs of the history are strictly increasing.
C25_IDsIncrease == StrictlyIncreasing(IDsOf(history))

\* the sum of line 442 does not overflow
NoOverflow == history = << >> \/ Last(history).ID < MaxID

\* C25: a call on a history with strictly increasing IDs whose last ID is
\* below the largest int64 leaves the IDs strictly increasing; the new
\* entry gets the ID of the last entry plus one, or 0 when the history is
\* empty.
C25_IDsIncreaseBelowMax ==
    [][(PersistStep /\ StrictlyIncreasing(IDsOf(history)) /\ NoOverflow) =>
          /\ StrictlyIncreasing(IDsOf(history'))
          /\ history' # << >> =>
                Last(history').ID = IF history = << >> THEN 0 ELSE Last(history).ID + 1]_allVars

\* two calls have left two entries whose IDs follow each other
C25_Witness ==
    /\ Len(history) >= 2
    /\ history[Len(history) - 1].DeployedAt > 0
    /\ Last(history).ID = history[Len(history) - 1].ID + 1

====
